---- MODULE Spec2Model ----
(***************************************************************************)
(* Student Management System (src/RefactorCode.cpp): the roster kept by    *)
(* StudentOperations / ExtendedStudentOperations, the grade policy, and    *)
(* the native store and CSV formats of FileHandler / CSVExporter.          *)
(*                                                                         *)
(* Representation.                                                         *)
(*  - A character is a one-character string; a word is a sequence of       *)
(*    characters without blanks; a std::string is the sequence of its      *)
(*    blank-separated words (operator<< and operator>> see nothing else).  *)
(*    A string read by `cin >> x` or `file >> x` has exactly one word and  *)
(*    is kept as that word (dates, statuses).                              *)
(*  - A float is a fixed-point integer counting thousandths (FScale).      *)
(*  - A text file is the sequence of its blank-separated tokens (words).   *)
(***************************************************************************)
EXTENDS Integers, Sequences, FiniteSets, TLC

VARIABLES students, store, pc, last

vars == <<students, store, pc, last>>

(***************************************************************************)
(* Bounds of the model.                                                    *)
(***************************************************************************)
MaxStudents == 2

MaxAttendance == 2

(***************************************************************************)
(* Numbers and text.                                                       *)
(***************************************************************************)
FScale == 10 ^ 3

NumMarks == 5

Abs(x) == IF x < 0 THEN -x ELSE x

Digits == <<"0", "1", "2", "3", "4", "5", "6", "7", "8", "9">>

IsDigit(c) == \E d \in 1..10 : Digits[d] = c

DigitVal(c) == (CHOOSE d \in 1..10 : Digits[d] = c) - 1

RECURSIVE FmtNat(_)
\* operator<<(unsigned): the decimal digits of n.
FmtNat(n) ==
    IF n < 10 THEN <<Digits[n + 1]>>
    ELSE FmtNat(n \div 10) \o <<Digits[(n % 10) + 1]>>

\* operator<<(int).
FmtInt(n) == IF n < 0 THEN <<"-">> \o FmtNat(-n) ELSE FmtNat(n)

\* Round the non-negative a to a multiple of p, ties to even: what printf
\* does with the exact binary value.  The only ties among the model's
\* inputs are multiples of 1/8, which a float holds exactly.
RoundHalfEven(a, p) ==
    LET q == a \div p
        r == a % p
    IN  IF 2 * r > p \/ (2 * r = p /\ q % 2 = 1) THEN q + 1 ELSE q

\* operator<<(float) after `fixed << setprecision(2)`.
FmtFixed2(x) ==
    LET h == RoundHalfEven(Abs(x), FScale \div 100)
    IN  (IF x < 0 THEN <<"-">> ELSE <<>>)
        \o FmtNat(h \div 100) \o <<".">>
        \o <<Digits[((h \div 10) % 10) + 1], Digits[(h % 10) + 1]>>

RECURSIVE StripZeros(_)
StripZeros(ds) ==
    IF ds # <<>> /\ ds[Len(ds)] = "0"
    THEN StripZeros(SubSeq(ds, 1, Len(ds) - 1))
    ELSE ds

\* operator<<(float) in the stream's default format (%g, 6 significant
\* digits, trailing zeros dropped).  Magnitudes of 10^6 and more, which %g
\* prints in scientific notation, are outside the model's inputs.
FmtDefault(x) ==
    LET a == Abs(x)
        \* the power of ten the 6th significant digit stands on, in thousandths
        p == IF a < 10 ^ 6 THEN 1
             ELSE IF a < 10 ^ 7 THEN 10
             ELSE IF a < 10 ^ 8 THEN 100
             ELSE 1000
        v == RoundHalfEven(a, p) * p
        frac == StripZeros(<<Digits[((v \div 100) % 10) + 1],
                             Digits[((v \div 10) % 10) + 1],
                             Digits[(v % 10) + 1]>>)
    IN  (IF x < 0 THEN <<"-">> ELSE <<>>)
        \o FmtNat(v \div FScale)
        \o (IF frac = <<>> THEN <<>> ELSE <<".">> \o frac)

RECURSIVE DigitRun(_)
\* the longest prefix of w made of digits
DigitRun(w) ==
    IF w # <<>> /\ IsDigit(Head(w)) THEN <<Head(w)>> \o DigitRun(Tail(w)) ELSE <<>>

RECURSIVE NatOf(_)
NatOf(ds) ==
    IF ds = <<>> THEN 0 ELSE 10 * NatOf(SubSeq(ds, 1, Len(ds) - 1)) + DigitVal(ds[Len(ds)])

Drop(w, n) == SubSeq(w, n + 1, Len(w))

\* num_get for an integer / stoi: optional sign, then digits; the characters
\* after the digits are left unread.  ok is FALSE when there is no digit.
ParseInt(w) ==
    LET neg  == w # <<>> /\ Head(w) = "-"
        sgn  == w # <<>> /\ Head(w) \in {"-", "+"}
        body == IF sgn THEN Tail(w) ELSE w
        ds   == DigitRun(body)
    IN  IF ds = <<>> THEN [ok |-> FALSE, val |-> 0, rest |-> w]
        ELSE [ok |-> TRUE,
              val |-> IF neg THEN -NatOf(ds) ELSE NatOf(ds),
              rest |-> Drop(body, Len(ds))]

\* num_get for a float / stof: optional sign, digits, optional point and
\* digits; the value in thousandths (texts of the model carry at most three
\* decimals; exponents do not occur).
ParseFloat(w) ==
    LET neg   == w # <<>> /\ Head(w) = "-"
        sgn   == w # <<>> /\ Head(w) \in {"-", "+"}
        body  == IF sgn THEN Tail(w) ELSE w
        ds    == DigitRun(body)
        after == Drop(body, Len(ds))
        point == after # <<>> /\ Head(after) = "."
        fs    == IF point THEN DigitRun(Tail(after)) ELSE <<>>
        f3    == SubSeq(fs \o <<"0", "0", "0">>, 1, 3)
        mag   == NatOf(ds) * FScale + NatOf(f3)
    IN  IF ds = <<>> /\ fs = <<>> THEN [ok |-> FALSE, val |-> 0, rest |-> w]
        ELSE [ok |-> TRUE,
              val |-> IF neg THEN -mag ELSE mag,
              rest |-> IF point THEN Drop(after, 1 + Len(fs)) ELSE after]

(***************************************************************************)
(* Data model: struct AttendanceRecord, struct Student.                    *)
(***************************************************************************)
Present == <<"P", "r", "e", "s", "e", "n", "t">>

Absent == <<"A", "b", "s", "e", "n", "t">>

ZeroMarks == [i \in 1..NumMarks |-> 0]

\* `Student s;` with the default member initialisers.  name, studentClass
\* and gender start empty; rollNo and age are assigned before any use.
NewStudent ==
    [name |-> <<>>, rollNo |-> 0, studentClass |-> <<>>, age |-> 0,
     gender |-> <<>>, marks |-> ZeroMarks, percentage |-> 0, grade |-> "F",
     attendanceRecords |-> <<>>, gpa |-> 0]

(***************************************************************************)
(* Grade policy.                                                           *)
(***************************************************************************)
\* Variant: the thresholds compared with > in place of >=.
GradeStrictThresholds(percentage) ==
    IF percentage > 90 * FScale THEN "A"
    ELSE IF percentage > 80 * FScale THEN "B"
    ELSE IF percentage > 70 * FScale THEN "C"
    ELSE IF percentage > 60 * FScale THEN "D"
    ELSE "F"

DefaultGradeStrategy_calculateGrade(percentage) ==
    IF percentage >= 90 * FScale THEN "A"
    ELSE IF percentage >= 80 * FScale THEN "B"
    ELSE IF percentage >= 70 * FScale THEN "C"
    ELSE IF percentage >= 60 * FScale THEN "D"
    ELSE "F"

DefaultGradeStrategy_calculateGPA(percentage) ==
    IF percentage >= 90 * FScale THEN 4 * FScale
    ELSE IF percentage >= 80 * FScale THEN 3 * FScale
    ELSE IF percentage >= 70 * FScale THEN 2 * FScale
    ELSE IF percentage >= 60 * FScale THEN 1 * FScale
    ELSE 0

RECURSIVE SumMarks(_, _)
SumMarks(marks, n) == IF n = 0 THEN 0 ELSE SumMarks(marks, n - 1) + marks[n]

\* total / 5 in thousandths (rounded down to a thousandth).
PercentageOf(marks) == SumMarks(marks, NumMarks) \div NumMarks

GradeCalculator_calculateGrade(s) ==
    LET percentage == PercentageOf(s.marks)
    IN  [s EXCEPT !.percentage = percentage,
                  !.grade = DefaultGradeStrategy_calculateGrade(percentage),
                  !.gpa = DefaultGradeStrategy_calculateGPA(percentage)]

\* (presentCount / size) * 100, 0 for an empty ledger.
calculateAttendancePercentage(s) ==
    IF s.attendanceRecords = <<>> THEN 0
    ELSE LET presentCount ==
                 Cardinality({i \in 1..Len(s.attendanceRecords) :
                                  s.attendanceRecords[i].status = Present})
         IN  (presentCount * 100 * FScale) \div Len(s.attendanceRecords)

(***************************************************************************)
(* Lookups and the console report of the last operation.                   *)
(***************************************************************************)
\* Variant: a lookup that falls back on the first record when no roll matches.
FindByRollOrFirst(roster, roll) ==
    IF \E i \in 1..Len(roster) : roster[i].rollNo = roll
    THEN CHOOSE i \in 1..Len(roster) :
             /\ roster[i].rollNo = roll
             /\ \A j \in 1..(i - 1) : roster[j].rollNo # roll
    ELSE IF roster = <<>> THEN 0 ELSE 1

\* find_if(..., rollNo == roll): the index of the first match, 0 for end().
FindByRoll(roster, roll) ==
    IF \E i \in 1..Len(roster) : roster[i].rollNo = roll
    THEN CHOOSE i \in 1..Len(roster) :
             /\ roster[i].rollNo = roll
             /\ \A j \in 1..(i - 1) : roster[j].rollNo # roll
    ELSE 0

NoReport ==
    [op |-> "none", status |-> "", roll |-> 0, cls |-> <<>>, marks |-> <<>>,
     idx |-> 0, size |-> 0, stats |-> <<>>]

\* op and status name the operation and the message it printed; roll, cls
\* and marks are its inputs, idx the record it found (0 for none), size the
\* length of the roster when it began, stats the figures of showStatistics.
Report(op, status) == [NoReport EXCEPT !.op = op, !.status = status]

(***************************************************************************)
(* Inputs the shell supplies.                                              *)
(***************************************************************************)
Ann == <<"A", "n", "n">>

Bo == <<"B", "o">>

Li == <<"L", "i">>

ClassX == <<"X">>

ClassY == <<"Y">>

Rolls == {1, 2}

\* name / class / age / gender as typed at the prompts (getline keeps the
\* blanks of a multi-word name).
Identities ==
    { [name |-> <<Ann>>, studentClass |-> <<ClassX>>, age |-> 20,
       gender |-> << <<"F">> >>],
      [name |-> <<Bo, Li>>, studentClass |-> <<ClassY>>, age |-> 21,
       gender |-> << <<"M">> >>] }

Classes == {ClassX, ClassY}

\* 85.125 84.875 85 85 85 (85 %, grade B) and -1 five times (-1 %): marks
\* are read with `cin >>` and their range is not checked.
MarksB == <<85125, 84875, 85000, 85000, 85000>>

MarksNeg == <<-1000, -1000, -1000, -1000, -1000>>

MarkInputs == {ZeroMarks, MarksB, MarksNeg}

DateJan == <<"2", "0", "2", "4", "-", "0", "1", "-", "0", "5">>

\* `cin >> date` takes any word: 5/1 is a date typed without the layout
DateShort == <<"5", "/", "1">>

Dates == {DateJan, DateShort}

ToUpper(c) == IF c = "p" THEN "P" ELSE IF c = "a" THEN "A" ELSE c

\* the P/A answers typed for the students, in roster order
AnswerPatterns(n) ==
    { [i \in 1..n |-> "P"], [i \in 1..n |-> IF i % 2 = 1 THEN "a" ELSE "p"] }

(***************************************************************************)
(* StudentOperations.                                                      *)
(***************************************************************************)
addStudent ==
    /\ pc = "menu"
    /\ Len(students) < MaxStudents
    /\ \E id \in Identities, roll \in Rolls :
          LET s == [NewStudent EXCEPT !.name = id.name, !.rollNo = roll,
                                      !.studentClass = id.studentClass,
                                      !.age = id.age, !.gender = id.gender]
          IN  /\ students' = Append(students, GradeCalculator_calculateGrade(s))
              /\ last' = [Report("add", "ok") EXCEPT !.roll = roll]
    /\ UNCHANGED <<store, pc>>

\* The record at index i after the prompts of updateStudent.
UpdateAt(roster, i, id) ==
    [roster EXCEPT ![i] =
        GradeCalculator_calculateGrade(
            [@ EXCEPT !.name = id.name, !.studentClass = id.studentClass,
                      !.age = id.age, !.gender = id.gender])]

updateStudent ==
    /\ pc = "menu"
    /\ \E roll \in Rolls, id \in Identities :
          LET it == FindByRoll(students, roll)
          IN  IF it # 0
              THEN /\ students' = UpdateAt(students, it, id)
                   /\ last' = [Report("update", "ok") EXCEPT !.roll = roll, !.idx = it]
              ELSE /\ students' = students
                   /\ last' = [Report("update", "notfound") EXCEPT !.roll = roll]
    /\ UNCHANGED <<store, pc>>

\* Variant: a delete that erases the first match only.
RemoveFirstRoll(roster, roll) ==
    IF \E i \in 1..Len(roster) : roster[i].rollNo = roll
    THEN LET it == CHOOSE i \in 1..Len(roster) :
                       /\ roster[i].rollNo = roll
                       /\ \A j \in 1..(i - 1) : roster[j].rollNo # roll
         IN  SubSeq(roster, 1, it - 1) \o SubSeq(roster, it + 1, Len(roster))
    ELSE roster

\* remove_if keeps the other records in their order; erase drops the tail.
RemoveRoll(roster, roll) == SelectSeq(roster, LAMBDA s : s.rollNo # roll)

deleteStudent ==
    /\ pc = "menu"
    /\ \E roll \in Rolls :
          LET kept == RemoveRoll(students, roll)
          IN  IF Len(kept) # Len(students)
              THEN /\ students' = kept
                   /\ last' = [Report("delete", "ok") EXCEPT
                                  !.roll = roll, !.size = Len(students)]
              ELSE /\ students' = students
                   /\ last' = [Report("delete", "notfound") EXCEPT !.roll = roll]
    /\ UNCHANGED <<store, pc>>

IndexPermutations(n) ==
    {f \in [1..n -> 1..n] : \A i, j \in 1..n : i # j => f[i] # f[j]}

\* std::sort with the comparator a.rollNo < b.rollNo: some permutation in
\* which no record precedes one of a smaller roll number.  std::sort
\* promises nothing about the order of records with equal roll numbers.
SortOutcomes(roster) ==
    { [i \in 1..Len(roster) |-> roster[f[i]]] : f \in
        { g \in IndexPermutations(Len(roster)) :
            \A i, j \in 1..Len(roster) :
                i < j => ~(roster[g[j]].rollNo < roster[g[i]].rollNo) } }

sortStudents ==
    /\ pc = "menu"
    /\ students' \in SortOutcomes(students)
    /\ last' = Report("sort", "ok")
    /\ UNCHANGED <<store, pc>>

(***************************************************************************)
(* ExtendedStudentOperations.                                              *)
(***************************************************************************)
\* Variant: a marking that overwrites the entry the ledger already has for
\* the date, and appends only when it has none.
MarkAllDedup(roster, date, answers) ==
    [i \in 1..Len(roster) |->
        LET entry == [date |-> date,
                      status |-> IF ToUpper(answers[i]) = "P"
                                 THEN Present ELSE Absent]
            ledger == roster[i].attendanceRecords
        IN  [roster[i] EXCEPT !.attendanceRecords =
                IF \E k \in 1..Len(ledger) : ledger[k].date = date
                THEN [k \in 1..Len(ledger) |->
                         IF ledger[k].date = date THEN entry ELSE ledger[k]]
                ELSE Append(ledger, entry)]]

\* the loop of markAttendance: one push_back on every ledger
MarkAll(roster, date, answers) ==
    [i \in 1..Len(roster) |->
        [roster[i] EXCEPT !.attendanceRecords =
            Append(@, [date |-> date,
                       status |-> IF ToUpper(answers[i]) = "P"
                                  THEN Present ELSE Absent])]]

markAttendance ==
    /\ pc = "menu"
    /\ \A i \in 1..Len(students) :
          Len(students[i].attendanceRecords) < MaxAttendance
    /\ \E date \in Dates, answers \in AnswerPatterns(Len(students)) :
          students' = MarkAll(students, date, answers)
    /\ last' = Report("attendance", "ok")
    /\ UNCHANGED <<store, pc>>

MonthJan == <<"0", "1", "-", "2", "0", "2", "4">>

MonthFeb == <<"0", "2", "-", "2", "0", "2", "4">>

\* `cin >> monthYear`
Months == {MonthJan, MonthFeb}

\* string::substr(pos, n): throws std::out_of_range when pos > size(),
\* otherwise the characters from pos on, n at most.
substr(w, pos, n) ==
    [thrown |-> pos > Len(w),
     val |-> SubSeq(w, pos + 1, IF pos + n < Len(w) THEN pos + n ELSE Len(w))]

\* The inner loop of viewMonthlyAttendance over one ledger, from entry k on:
\* the entries whose date.substr(5, 2) + "-" + date.substr(0, 4) is
\* monthYear are counted.
RECURSIVE MonthlyCount(_, _, _, _)
MonthlyCount(records, monthYear, k, acc) ==
    IF k > Len(records) THEN acc
    ELSE LET att == records[k]
             mm == substr(att.date, 5, 2)
             yyyy == substr(att.date, 0, 4)
         IN  IF mm.thrown \/ yyyy.thrown THEN [acc EXCEPT !.thrown = TRUE]
             ELSE IF mm.val \o <<"-">> \o yyyy.val = monthYear
             THEN MonthlyCount(records, monthYear, k + 1,
                      [acc EXCEPT !.total = @ + 1,
                                  !.present = IF att.status = Present
                                              THEN @ + 1 ELSE @])
             ELSE MonthlyCount(records, monthYear, k + 1, acc)

\* The outer loop from student i on: the rows printed so far, and whether
\* an exception left the function.
RECURSIVE MonthlyReport(_, _, _, _)
MonthlyReport(roster, monthYear, i, rows) ==
    IF i > Len(roster) THEN [thrown |-> FALSE, rows |-> rows]
    ELSE LET c == MonthlyCount(roster[i].attendanceRecords, monthYear, 1,
                      [thrown |-> FALSE, present |-> 0, total |-> 0])
         IN  IF c.thrown THEN [thrown |-> TRUE, rows |-> rows]
             ELSE IF c.total > 0
             THEN MonthlyReport(roster, monthYear, i + 1,
                      Append(rows, [rollNo |-> roster[i].rollNo,
                                    present |-> c.present,
                                    absent |-> c.total - c.present,
                                    percent |-> (c.present * 100 * FScale)
                                                    \div c.total]))
             ELSE MonthlyReport(roster, monthYear, i + 1, rows)

\* Nothing in MenuSystem::run or main catches: an exception ends the program.
viewMonthlyAttendance ==
    /\ pc = "menu"
    /\ \E monthYear \in Months :
          LET r == MonthlyReport(students, monthYear, 1, <<>>)
          IN  /\ last' = [Report("monthly", IF r.thrown THEN "thrown" ELSE "ok")
                             EXCEPT !.cls = monthYear, !.stats = r.rows]
              /\ pc' = IF r.thrown THEN "aborted" ELSE "menu"
    /\ UNCHANGED <<students, store>>

\* Variant: marks stored without the call of calculateGrade.
SetMarksAtStale(roster, i, m) == [roster EXCEPT ![i] = [@ EXCEPT !.marks = m]]

SetMarksAt(roster, i, m) ==
    [roster EXCEPT ![i] = GradeCalculator_calculateGrade([@ EXCEPT !.marks = m])]

enterMarks ==
    /\ pc = "menu"
    /\ \E roll \in Rolls, m \in MarkInputs :
          LET it == FindByRoll(students, roll)
          IN  IF it # 0
              THEN /\ students' = SetMarksAt(students, it, m)
                   /\ last' = [Report("marks", "ok") EXCEPT
                                  !.roll = roll, !.marks = m, !.idx = it]
              ELSE /\ students' = students
                   /\ last' = [Report("marks", "notfound") EXCEPT !.roll = roll]
    /\ UNCHANGED <<store, pc>>

\* Variant: classStudents filled without the class test.
ClassStudentsAll(roster, cls) == roster

\* the records showStatistics copies into classStudents
ClassStudents(roster, cls) == SelectSeq(roster, LAMBDA s : s.studentClass = <<cls>>)

RECURSIVE SumSeq(_)
SumSeq(xs) == IF xs = <<>> THEN 0 ELSE Head(xs) + SumSeq(Tail(xs))

\* map<char, int> gradeCount after the loop: an entry for each grade met
GradeCount(roster) ==
    [g \in {roster[i].grade : i \in 1..Len(roster)} |->
        Cardinality({i \in 1..Len(roster) : roster[i].grade = g})]

\* total / count: a float divided by an int converted to float
FloatDiv(total, count) == IF count = 0 THEN "nan" ELSE total \div count

\* The report of showStatistics; "empty" is the early return.
Statistics(roster, cls) ==
    LET classStudents == ClassStudents(roster, cls)
        count == Len(classStudents)
        totalPercentage == SumSeq([i \in 1..count |-> classStudents[i].percentage])
        totalGPA == SumSeq([i \in 1..count |-> classStudents[i].gpa])
        totalAttendance ==
            SumSeq([i \in 1..count |->
                       calculateAttendancePercentage(classStudents[i])])
    IN  IF classStudents = <<>>
        THEN [Report("statistics", "empty") EXCEPT !.cls = cls]
        ELSE [Report("statistics", "ok") EXCEPT
                 !.cls = cls,
                 !.stats = [count |-> count,
                            avgPercentage |-> FloatDiv(totalPercentage, count),
                            avgGPA |-> FloatDiv(totalGPA, count),
                            avgAttendance |-> FloatDiv(totalAttendance, count),
                            gradeCount |-> GradeCount(classStudents)]]

showStatistics ==
    /\ pc = "menu"
    /\ \E cls \in Classes : last' = Statistics(students, cls)
    /\ UNCHANGED <<students, store, pc>>

RECURSIVE TopperScanLastTie(_, _, _)
\* Variant: the scan with >= in place of >.
TopperScanLastTie(roster, cls, n) ==
    IF n = 0 THEN [maxPercentage |-> -1 * FScale, topper |-> 0]
    ELSE LET before == TopperScanLastTie(roster, cls, n - 1)
             s == roster[n]
         IN  IF s.studentClass = <<cls>> /\ s.percentage >= before.maxPercentage
             THEN [maxPercentage |-> s.percentage, topper |-> n]
             ELSE before

RECURSIVE TopperScan(_, _, _)
\* The loop of findTopper over the first n records: maxPercentage starts at
\* -1 and topper at nullptr (0); a record of the class replaces the topper
\* when its percentage is strictly greater.
TopperScan(roster, cls, n) ==
    IF n = 0 THEN [maxPercentage |-> -1 * FScale, topper |-> 0]
    ELSE LET before == TopperScan(roster, cls, n - 1)
             s == roster[n]
         IN  IF s.studentClass = <<cls>> /\ s.percentage > before.maxPercentage
             THEN [maxPercentage |-> s.percentage, topper |-> n]
             ELSE before

Topper(roster, cls) ==
    LET topper == TopperScan(roster, cls, Len(roster)).topper
    IN  IF topper # 0
        THEN [Report("topper", "ok") EXCEPT !.cls = cls, !.idx = topper]
        ELSE [Report("topper", "empty") EXCEPT !.cls = cls]

findTopper ==
    /\ pc = "menu"
    /\ \E cls \in Classes : last' = Topper(students, cls)
    /\ UNCHANGED <<students, store, pc>>

(***************************************************************************)
(* CSV interchange.  A CSV file is a sequence of lines, a line the         *)
(* sequence of its comma-separated cells, a cell a std::string.            *)
(***************************************************************************)
CsvHeader ==
    << << <<"R", "o", "l", "l">> >>, << <<"N", "a", "m", "e">> >>,
       << <<"C", "l", "a", "s", "s">> >>, << <<"A", "g", "e">> >>,
       << <<"G", "e", "n", "d", "e", "r">> >>,
       << <<"P", "e", "r", "c", "e", "n", "t", "a", "g", "e">> >>,
       << <<"G", "r", "a", "d", "e">> >>, << <<"G", "P", "A">> >>,
       << <<"A", "t", "t", "e", "n", "d", "a", "n", "c", "e", "%">> >> >>

\* One row of CSVExporter::exportData.  `fixed << setprecision(2)` is set
\* while the first row is written and stays set on the stream: the first
\* row's percentage is in the default format, every later one has 2 decimals.
CsvRow(s, isFixed) ==
    << <<FmtInt(s.rollNo)>>, s.name, s.studentClass, <<FmtInt(s.age)>>, s.gender,
       <<IF isFixed THEN FmtFixed2(s.percentage) ELSE FmtDefault(s.percentage)>>,
       << <<s.grade>> >>, <<FmtFixed2(s.gpa)>>,
       <<FmtFixed2(calculateAttendancePercentage(s)) \o <<"%">> >> >>

exportData(roster) ==
    <<CsvHeader>> \o [i \in 1..Len(roster) |-> CsvRow(roster[i], i > 1)]

\* getline(ss, temp, ','): the i-th cell, empty once the line is used up
Cell(line, i) == IF i <= Len(line) THEN line[i] ELSE <<>>

\* stoi / stof skip leading blanks and convert a prefix of what follows;
\* they throw std::invalid_argument when no conversion can be made (ok FALSE).
stoi(cell) == IF cell = <<>> THEN [ok |-> FALSE, val |-> 0] ELSE ParseInt(Head(cell))

stof(cell) == IF cell = <<>> THEN [ok |-> FALSE, val |-> 0] ELSE ParseFloat(Head(cell))

\* temp[0]: the first character of the cell, '\0' when the cell is empty
FirstChar(cell) == IF cell = <<>> THEN "NUL" ELSE Head(Head(cell))

\* The body of the while loop of importFromCSV for one line: the parsed
\* Student s as it is when `students.push_back(s)` copies it.  The call
\* gradeCalc->calculateGrade(s) that follows works on the local s, which
\* goes out of scope at the end of the iteration.
ImportLine(line) ==
    LET roll == stoi(Cell(line, 1))
        age  == stoi(Cell(line, 4))
        pct  == stof(Cell(line, 6))
        gpa  == stof(Cell(line, 8))
        s    == [NewStudent EXCEPT
                    !.rollNo = roll.val, !.name = Cell(line, 2),
                    !.studentClass = Cell(line, 3), !.age = age.val,
                    !.gender = Cell(line, 5), !.percentage = pct.val,
                    !.grade = FirstChar(Cell(line, 7)), !.gpa = gpa.val]
        recomputedLocal == GradeCalculator_calculateGrade(s)
    IN  [thrown |-> ~(roll.ok /\ age.ok /\ pct.ok /\ gpa.ok), pushed |-> s]

RECURSIVE ImportLines(_, _)
\* the while loop: an exception leaves the loop and, uncaught, the program
ImportLines(lines, roster) ==
    IF lines = <<>> THEN [students |-> roster, thrown |-> FALSE]
    ELSE LET r == ImportLine(Head(lines))
         IN  IF r.thrown THEN [students |-> roster, thrown |-> TRUE]
             ELSE ImportLines(Tail(lines), Append(roster, r.pushed))

\* a student as the program holds it after enterMarks
SampleStudent(id, roll, m) ==
    GradeCalculator_calculateGrade(
        [NewStudent EXCEPT !.name = id.name, !.rollNo = roll,
                           !.studentClass = id.studentClass, !.age = id.age,
                           !.gender = id.gender, !.marks = m])

SampleAnn ==
    SampleStudent([name |-> <<Ann>>, studentClass |-> <<ClassX>>, age |-> 20,
                   gender |-> << <<"F">> >>], 1, MarksB)

\* The files the user may name: none that opens, an export of the program
\* itself, and a file whose row has a name in the Roll column.
CsvFiles ==
    { [exists |-> FALSE, lines |-> <<>>],
      [exists |-> TRUE, lines |-> exportData(<<SampleAnn>>)],
      [exists |-> TRUE, lines |-> <<CsvHeader, << <<Ann>>, <<Ann>> >> >>] }

importFromCSV ==
    /\ pc = "menu"
    /\ \E file \in CsvFiles :
          /\ Len(students) + Len(file.lines) - 1 <= MaxStudents
          /\ IF ~file.exists
             THEN /\ last' = Report("import", "nofile")
                  /\ UNCHANGED <<students, pc>>
             ELSE LET r == ImportLines(Drop(file.lines, 1), students)
                  IN  /\ students' = r.students
                      /\ pc' = IF r.thrown THEN "aborted" ELSE "menu"
                      /\ last' = [Report("import", IF r.thrown THEN "thrown" ELSE "ok")
                                     EXCEPT !.size = Len(students)]
    /\ UNCHANGED store

(***************************************************************************)
(* Native store (FileHandler).                                             *)
(***************************************************************************)
\* a word written with operator<<: an empty one leaves no token
Tok(w) == IF w = <<>> THEN <<>> ELSE <<w>>

RECURSIVE AttendanceTokens(_)
AttendanceTokens(records) ==
    IF records = <<>> THEN <<>>
    ELSE Tok(Head(records).date) \o Tok(Head(records).status)
         \o AttendanceTokens(Tail(records))

\* One pass of the loop of saveToFile.  The loop ends each record with
\* `fixed << setprecision(2) << s.gpa`; the manipulators stay set on the
\* stream, so the marks of the first record are written in the default
\* format and the marks of every later record with 2 decimals.
RecordTokens(s, isFixed) ==
    LET Fmt(x) == IF isFixed THEN FmtFixed2(x) ELSE FmtDefault(x)
    IN  s.name \o <<FmtInt(s.rollNo)>> \o s.studentClass \o <<FmtInt(s.age)>>
        \o s.gender
        \o [i \in 1..NumMarks |-> Fmt(s.marks[i])]
        \o <<FmtNat(Len(s.attendanceRecords))>>
        \o AttendanceTokens(s.attendanceRecords)
        \o <<FmtFixed2(s.gpa)>>

RECURSIVE saveToFile(_)
saveToFile(roster) ==
    IF roster = <<>> THEN <<>>
    ELSE saveToFile(SubSeq(roster, 1, Len(roster) - 1))
         \o RecordTokens(roster[Len(roster)], Len(roster) > 1)

\* An input stream: the tokens not yet read and the failbit.
Stream(toks) == [toks |-> toks, fail |-> FALSE]

Failed(st) == [st EXCEPT !.fail = TRUE]

\* file >> string.  On a failed or exhausted stream nothing is stored.
ReadStr(st, old) ==
    IF st.fail \/ st.toks = <<>> THEN [val |-> old, st |-> Failed(st)]
    ELSE [val |-> Head(st.toks), st |-> [st EXCEPT !.toks = Tail(@)]]

\* What `file >> number` stores and leaves, given the conversion r of the
\* next token: on a failed or exhausted stream nothing is stored (the
\* sentry fails); when the token does not start a number, 0 is stored and
\* the failbit set; characters after the number stay in the stream.
Extracted(st, old, r) ==
    IF st.fail \/ st.toks = <<>> THEN [val |-> old, st |-> Failed(st)]
    ELSE IF ~r.ok THEN [val |-> 0, st |-> Failed(st)]
    ELSE [val |-> r.val, st |-> [st EXCEPT !.toks = Tok(r.rest) \o Tail(@)]]

NextToken(st) == IF st.toks = <<>> THEN <<>> ELSE Head(st.toks)

\* file >> int
ReadInt(st, old) == Extracted(st, old, ParseInt(NextToken(st)))

\* file >> float
ReadFloat(st, old) == Extracted(st, old, ParseFloat(NextToken(st)))

RECURSIVE ReadAttendance(_, _, _)
\* the for loop over the resized attendanceRecords, from index i on
ReadAttendance(st, records, i) ==
    IF i > Len(records) THEN [val |-> records, st |-> st]
    ELSE LET d == ReadStr(st, records[i].date)
             a == ReadStr(d.st, records[i].status)
         IN  ReadAttendance(a.st,
                 [records EXCEPT ![i] = [date |-> d.val, status |-> a.val]],
                 i + 1)

\* vector::resize(n): the first n records kept, value-initialised ones added
Resize(records, n) ==
    [i \in 1..n |-> IF i <= Len(records) THEN records[i]
                    ELSE [date |-> <<>>, status |-> <<>>]]

RECURSIVE LoadLoop(_, _, _, _)
\* The while loop of loadFromFile.  s is the one Student declared before
\* the loop, so what one pass does not overwrite is left from the pass
\* before.  `int numRecords;` is not initialised: uninit is what it holds
\* when `file >> numRecords` stores nothing.  A negative numRecords makes
\* resize throw std::length_error.
LoadLoop(st, s, acc, uninit) ==
    LET name   == ReadStr(st, <<>>)
        rollNo == ReadInt(name.st, s.rollNo)
        class  == ReadStr(rollNo.st, <<>>)
        age    == ReadInt(class.st, s.age)
        gender == ReadStr(age.st, <<>>)
        m1     == ReadFloat(gender.st, s.marks[1])
        m2     == ReadFloat(m1.st, s.marks[2])
        m3     == ReadFloat(m2.st, s.marks[3])
        m4     == ReadFloat(m3.st, s.marks[4])
        m5     == ReadFloat(m4.st, s.marks[5])
        numRecords == ReadInt(m5.st, uninit)
        att    == ReadAttendance(numRecords.st,
                      Resize(s.attendanceRecords, numRecords.val), 1)
        gpa    == ReadFloat(att.st, s.gpa)
        read   == [s EXCEPT !.name = <<name.val>>, !.rollNo = rollNo.val,
                            !.studentClass = <<class.val>>, !.age = age.val,
                            !.gender = <<gender.val>>,
                            !.marks = <<m1.val, m2.val, m3.val, m4.val, m5.val>>,
                            !.attendanceRecords = att.val, !.gpa = gpa.val]
    IN  IF m5.st.fail THEN [students |-> acc, thrown |-> FALSE]
        ELSE IF numRecords.val < 0 THEN [students |-> acc, thrown |-> TRUE]
        ELSE LoadLoop(gpa.st, read, Append(acc, read), uninit)

loadFromFile(file, uninit) == LoadLoop(Stream(file), NewStudent, <<>>, uninit)

\* the loop of loadData over the loaded records
Recalculate(roster) ==
    [i \in 1..Len(roster) |-> GradeCalculator_calculateGrade(roster[i])]

loadData(file, uninit) == Recalculate(loadFromFile(file, uninit).students)

(***************************************************************************)
(* The program: MenuSystem.                                                *)
(***************************************************************************)
\* what an uninitialised int may hold
UninitInts == {-1, 0, 1}

\* students.txt as the program may find it when it starts: absent or
\* empty, or written by an earlier run.
InitialStores ==
    { <<>>,
      saveToFile(<<[SampleAnn EXCEPT
                       !.rollNo = 2,
                       !.attendanceRecords =
                           <<[date |-> DateJan, status |-> Absent]>>]>>) }

Init ==
    /\ students = <<>>
    /\ store \in InitialStores
    /\ pc = "start"
    /\ last = NoReport

\* MenuSystem(): ops->loadData()
MenuSystem ==
    /\ pc = "start"
    /\ \E uninit \in UninitInts :
          LET r == loadFromFile(store, uninit)
          IN  IF r.thrown
              THEN /\ pc' = "aborted"
                   /\ students' = students
                   /\ last' = Report("load", "thrown")
              ELSE /\ pc' = "auth"
                   /\ students' = loadData(store, uninit)
                   /\ last' = Report("load", "ok")
    /\ UNCHANGED store

\* run(): AuthManager::authenticate() fails and the program returns, or
\* succeeds and the menu loop starts.
authenticate ==
    /\ pc = "auth"
    /\ \E ok \in BOOLEAN :
          /\ pc' = IF ok THEN "menu" ELSE "exited"
          /\ last' = Report("auth", IF ok THEN "ok" ELSE "failed")
    /\ UNCHANGED <<students, store>>

\* choice 18: ops->saveData() and leave the loop
saveData ==
    /\ pc = "menu"
    /\ store' = saveToFile(students)
    /\ pc' = "exited"
    /\ last' = Report("save", "ok")
    /\ UNCHANGED students

Next ==
    \/ MenuSystem
    \/ authenticate
    \/ addStudent
    \/ updateStudent
    \/ deleteStudent
    \/ sortStudents
    \/ markAttendance
    \/ enterMarks
    \/ showStatistics
    \/ importFromCSV
    \/ findTopper
    \/ viewMonthlyAttendance
    \/ saveData

Spec == Init /\ [][Next]_vars

\* A session in which the user never chooses "Mark Attendance": the
\* ledgers are the ones loaded from the store.
NextRoster ==
    \/ MenuSystem
    \/ authenticate
    \/ addStudent
    \/ updateStudent
    \/ deleteStudent
    \/ sortStudents
    \/ enterMarks
    \/ showStatistics
    \/ importFromCSV
    \/ findTopper
    \/ saveData

SpecRoster == Init /\ [][NextRoster]_vars

\* A session of the attendance functions: students are added or deleted,
\* attendance is marked and the monthly report is asked for.
NextAttendance ==
    \/ MenuSystem
    \/ authenticate
    \/ addStudent
    \/ deleteStudent
    \/ markAttendance
    \/ viewMonthlyAttendance
    \/ saveData

SpecAttendance == Init /\ [][NextAttendance]_vars

(***************************************************************************)
(* The program started on a store that was cut short: students.txt as an   *)
(* interrupted write or a copy that broke off leaves it.                   *)
(***************************************************************************)
SampleBo ==
    [SampleStudent([name |-> <<Bo>>, studentClass |-> <<ClassY>>, age |-> 21,
                    gender |-> << <<"M">> >>], 1, MarksB)
        EXCEPT !.attendanceRecords = <<[date |-> DateJan, status |-> Present]>>]

\* a store of two records, each with one attendance entry
FullStore ==
    saveToFile(<<[SampleAnn EXCEPT
                     !.rollNo = 2,
                     !.attendanceRecords =
                         <<[date |-> DateJan, status |-> Absent]>>],
                 SampleBo>>)

\* the store cut after any number of tokens
TruncatedStores == {SubSeq(FullStore, 1, n) : n \in 0..Len(FullStore)}

InitLoad ==
    /\ students = <<>>
    /\ store \in TruncatedStores
    /\ pc = "start"
    /\ last = NoReport

\* the program loads the store, the user logs in (or not) and leaves
NextLoad ==
    \/ MenuSystem
    \/ authenticate
    \/ saveData

SpecLoad == InitLoad /\ [][NextLoad]_vars

(***************************************************************************)
(* The program working on the roster an earlier run saved: the operations  *)
(* that write the records or the store, "Mark Attendance" included; no     *)
(* record is added.                                                        *)
(***************************************************************************)
\* students.txt of an earlier run: empty, one record, two records with an
\* entry each, two records of the same roll of which one was never marked
LedgerStores ==
    InitialStores \cup {FullStore, saveToFile(<<SampleAnn, SampleBo>>)}

InitLedger ==
    /\ students = <<>>
    /\ store \in LedgerStores
    /\ pc = "start"
    /\ last = NoReport

NextLedger ==
    \/ MenuSystem
    \/ authenticate
    \/ updateStudent
    \/ deleteStudent
    \/ sortStudents
    \/ markAttendance
    \/ enterMarks
    \/ saveData

SpecLedger == InitLedger /\ [][NextLedger]_vars

(***************************************************************************)
(* The grade policy on its own: DefaultGradeStrategy called with any       *)
(* percentage, as GradeCalculator and its other callers may.               *)
(***************************************************************************)
\* 50.0, 50.5, ... 100.0; a thousandth below and above each threshold; and
\* percentages outside 0..100, which unvalidated marks produce.
Percentages ==
    {k * (FScale \div 2) : k \in 100..200}
    \cup {t * FScale + d : t \in {60, 70, 80, 90}, d \in {-1, 1}}
    \cup {-1 * FScale, 0, 150 * FScale}

InitPolicy ==
    /\ students = <<>>
    /\ store = <<>>
    /\ pc = "policy"
    /\ last = NoReport

\* one call of calculateGrade and of calculateGPA with the same percentage
gradePolicy ==
    /\ pc = "policy"
    /\ \E percentage \in Percentages :
          last' = [Report("policy", "ok") EXCEPT
                      !.stats = [percentage |-> percentage,
                                 grade |-> DefaultGradeStrategy_calculateGrade(percentage),
                                 gpa |-> DefaultGradeStrategy_calculateGPA(percentage)]]
    /\ UNCHANGED <<students, store, pc>>

NextPolicy == gradePolicy

SpecPolicy == InitPolicy /\ [][NextPolicy]_vars

(***************************************************************************)
(* Properties.                                                             *)
(***************************************************************************)
\* the first index of roster whose record has the roll, 0 when none has
FirstWithRoll(roster, roll) ==
    IF \A i \in 1..Len(roster) : roster[i].rollNo # roll THEN 0
    ELSE CHOOSE i \in 1..Len(roster) :
             /\ roster[i].rollNo = roll
             /\ \A j \in 1..(i - 1) : roster[j].rollNo # roll

HasRoll(roster, roll) == \E i \in 1..Len(roster) : roster[i].rollNo = roll

Derived(s) ==
    /\ s.percentage = PercentageOf(s.marks)
    /\ s.grade = DefaultGradeStrategy_calculateGrade(s.percentage)
    /\ s.gpa = DefaultGradeStrategy_calculateGPA(s.percentage)

\* C1: in every reachable state every record of the roster has
\* percentage = sum(marks)/5, grade = grade(percentage), gpa = gpa(percentage).
C1_DerivedConsistent == \A i \in 1..Len(students) : Derived(students[i])

\* C2: setMarks(roll, m) with the roll present sets the marks of the first
\* record with that roll to m and its percentage, grade and gpa to the values
\* derived from m; every other record, later records with the same roll
\* included, is unchanged.
C2_SetMarks ==
    [][(last'.op = "marks" /\ HasRoll(students, last'.roll)) =>
          LET i == FirstWithRoll(students, last'.roll)
              m == last'.marks
          IN  /\ Len(students') = Len(students)
              /\ students'[i].marks = m
              /\ students'[i].percentage = PercentageOf(m)
              /\ students'[i].grade =
                     DefaultGradeStrategy_calculateGrade(PercentageOf(m))
              /\ students'[i].gpa =
                     DefaultGradeStrategy_calculateGPA(PercentageOf(m))
              /\ \A j \in 1..Len(students) : j # i => students'[j] = students[j]
      ]_vars

\* C2 happens: marks giving 85 % were set on the first of two records with
\* the same roll, and the second still has other marks.
C2_Witness ==
    /\ last.op = "marks" /\ last.status = "ok" /\ last.marks = MarksB
    /\ Len(students) = 2
    /\ students[1].rollNo = last.roll /\ students[2].rollNo = last.roll
    /\ students[1].marks = MarksB /\ students[1].grade = "B"
    /\ students[2].marks # MarksB

\* C3: after a CSV import every record the import appended carries the
\* grade and gpa that GradePolicy recomputation gives it, not the grade and
\* gpa written in its row.
C3_ImportRecomputes ==
    (last.op = "import" /\ last.status = "ok") =>
        \A i \in (last.size + 1)..Len(students) :
            /\ students[i].grade = GradeCalculator_calculateGrade(students[i]).grade
            /\ students[i].gpa = GradeCalculator_calculateGrade(students[i]).gpa

RECURSIVE WithoutRoll(_, _)
WithoutRoll(roster, roll) ==
    IF roster = <<>> THEN <<>>
    ELSE IF Head(roster).rollNo = roll THEN WithoutRoll(Tail(roster), roll)
    ELSE <<Head(roster)>> \o WithoutRoll(Tail(roster), roll)

\* C4: delete(roll) removes every record whose rollNo is roll: afterwards
\* the roster is the prior roster without those records, the others in
\* their prior order.
C4_DeleteAll ==
    [][last'.op = "delete" =>
          /\ students' = WithoutRoll(students, last'.roll)
          /\ ~HasRoll(students', last'.roll)
      ]_vars

\* C4 happens: one delete removed two records.
C4_Witness ==
    /\ last.op = "delete" /\ last.status = "ok"
    /\ last.size - Len(students) >= 2

SingleToken(str) == Len(str) <= 1

SameEntries(a, b) ==
    /\ Len(a) = Len(b)
    /\ \A k \in 1..Len(a) : a[k].date = b[k].date /\ a[k].status = b[k].status

\* what the round trip promises of a record
SamePersisted(a, b) ==
    /\ a.rollNo = b.rollNo /\ a.studentClass = b.studentClass
    /\ a.age = b.age /\ a.gender = b.gender /\ a.marks = b.marks
    /\ SameEntries(a.attendanceRecords, b.attendanceRecords)

\* C5: for a roster whose names, classes and genders have no internal
\* whitespace, the roster loaded from the store just saved has the same
\* length and order and every record has the same rollNo, studentClass,
\* age, gender, marks and attendance entries.
C5_RoundTrip ==
    (/\ last.op = "save"
     /\ \A i \in 1..Len(students) :
           /\ SingleToken(students[i].name)
           /\ SingleToken(students[i].studentClass)
           /\ SingleToken(students[i].gender))
    => \A uninit \in UninitInts :
          LET loaded == loadFromFile(store, uninit).students
          IN  /\ Len(loaded) = Len(students)
              /\ \A i \in 1..Len(students) : SamePersisted(loaded[i], students[i])

InClass(s, cls) == s.studentClass = <<cls>>

\* C6: when topper(class) returns a record, the record is of the class, no
\* record of the class has a greater percentage, and every earlier record
\* of the class has a smaller one.
C6_TopperFirstMax ==
    (last.op = "topper" /\ last.status = "ok") =>
        /\ last.idx \in 1..Len(students)
        /\ InClass(students[last.idx], last.cls)
        /\ \A j \in 1..Len(students) :
              InClass(students[j], last.cls) =>
                  /\ students[j].percentage <= students[last.idx].percentage
                  /\ j < last.idx =>
                        students[j].percentage < students[last.idx].percentage

\* C6 happens: two records of the class tie on the greatest percentage and
\* the first is returned.
C6_Witness ==
    /\ last.op = "topper" /\ last.status = "ok" /\ last.idx = 1
    /\ Len(students) = 2
    /\ InClass(students[1], last.cls) /\ InClass(students[2], last.cls)
    /\ students[1].percentage = students[2].percentage
    /\ students[1].percentage > 0

\* C7: topper(class) reports "no students" exactly when no record of the
\* roster is of the class.
C7_TopperEmptyIffNoMember ==
    last.op = "topper" =>
        (last.status = "empty" <=>
            \A i \in 1..Len(students) : ~InClass(students[i], last.cls))

RECURSIVE SumCounts(_)
SumCounts(f) ==
    IF DOMAIN f = {} THEN 0
    ELSE LET g == CHOOSE x \in DOMAIN f : TRUE
         IN  f[g] + SumCounts([x \in DOMAIN f \ {g} |-> f[x]])

\* C8: statistics(class) signals "no students" and computes nothing exactly
\* when no record is of the class; when it computes averages the divisor is
\* the number of records of the class, at least 1, and the grade counts sum
\* to it.
C8_Statistics ==
    last.op = "statistics" =>
        LET members == {i \in 1..Len(students) : InClass(students[i], last.cls)}
        IN  /\ last.status = "empty" <=> members = {}
            /\ last.status = "empty" => DOMAIN last.stats = {}
            /\ last.status = "ok" =>
                  /\ last.stats.count = Cardinality(members)
                  /\ last.stats.count >= 1
                  /\ SumCounts(last.stats.gradeCount) = last.stats.count

\* C8 happens: averages over a class of two records with two different grades.
C8_Witness ==
    /\ last.op = "statistics" /\ last.status = "ok"
    /\ last.stats.count = 2
    /\ Cardinality(DOMAIN last.stats.gradeCount) = 2

RECURSIVE StableSort(_)
\* the records of the least roll in their order, then the rest likewise
StableSort(roster) ==
    IF roster = <<>> THEN <<>>
    ELSE LET least == CHOOSE r \in {roster[i].rollNo : i \in 1..Len(roster)} :
                          \A i \in 1..Len(roster) : r <= roster[i].rollNo
         IN  SelectSeq(roster, LAMBDA s : s.rollNo = least)
             \o StableSort(SelectSeq(roster, LAMBDA s : s.rollNo # least))

\* C9: sortByRoll leaves the roster in non-decreasing rollNo order, a
\* permutation of the prior roster in which records of equal rollNo keep
\* their prior relative order.
C9_SortStable == [][last'.op = "sort" => students' = StableSort(students)]_vars

\* C10: update, delete and setMarks with a roll no record has report "not
\* found" and leave the roster as it was.
C10_NotFound ==
    [][/\ (last'.op \in {"update", "delete", "marks"}
           /\ ~HasRoll(students, last'.roll))
          => (last'.status = "notfound" /\ students' = students)
       /\ last'.status = "notfound" =>
             (~HasRoll(students, last'.roll) /\ students' = students)
      ]_vars

\* C10 happens: an update with an unknown roll on a roster that holds records.
C10_Witness ==
    /\ last.op = "update" /\ last.status = "notfound"
    /\ Len(students) = 2
    /\ ~HasRoll(students, last.roll)

Ledger(roster, i) == roster[i].attendanceRecords

\* C11: ledgers are append-only.  markAttendance leaves on every ledger the
\* entries it had, in their order, followed by exactly one new entry, also
\* when the ledger already has an entry of that date; update, setMarks and
\* save leave every ledger as it was; sortByRoll moves whole records, ledger
\* included; delete leaves the records that stay as they were.
C11_LedgerAppendOnly ==
    [][/\ last'.op = "attendance" =>
             /\ Len(students') = Len(students)
             /\ \A i \in 1..Len(students) :
                   /\ Len(Ledger(students', i)) = Len(Ledger(students, i)) + 1
                   /\ SubSeq(Ledger(students', i), 1, Len(Ledger(students, i)))
                          = Ledger(students, i)
       /\ last'.op \in {"update", "marks", "save"} =>
             /\ Len(students') = Len(students)
             /\ \A i \in 1..Len(students) :
                   Ledger(students', i) = Ledger(students, i)
       /\ last'.op = "sort" =>
             \E f \in IndexPermutations(Len(students)) :
                 /\ Len(students') = Len(students)
                 /\ \A i \in 1..Len(students) : students'[i] = students[f[i]]
       /\ last'.op = "delete" =>
             \A i \in 1..Len(students') :
                 \E j \in i..Len(students) : students'[i] = students[j]
      ]_vars

\* C11 happens: a ledger that had an entry for a date was marked again for
\* the same date with another status, and holds both entries.
C11_Witness ==
    /\ last.op = "attendance"
    /\ \E i \in 1..Len(students) :
          /\ Len(Ledger(students, i)) = 2
          /\ Ledger(students, i)[1].date = Ledger(students, i)[2].date
          /\ Ledger(students, i)[1].status = Absent
          /\ Ledger(students, i)[2].status = Present

\* the table of the grade policy: lower bound (included), upper bound
\* (excluded, none for A), grade, gpa
Buckets ==
    { [lo |-> 90, hi |-> 0, grade |-> "A", gpa |-> 4],
      [lo |-> 80, hi |-> 90, grade |-> "B", gpa |-> 3],
      [lo |-> 70, hi |-> 80, grade |-> "C", gpa |-> 2],
      [lo |-> 60, hi |-> 70, grade |-> "D", gpa |-> 1] }

InBucket(p, b) ==
    /\ p >= b.lo * FScale
    /\ b.grade # "A" => p < b.hi * FScale

\* C12: the policy has a result for every percentage: A/4.0 from 90, B/3.0
\* in [80, 90), C/2.0 in [70, 80), D/1.0 in [60, 70), F/0.0 otherwise; so
\* grade and gpa name the same bucket and a smaller percentage never has a
\* greater gpa.
C12_GradeBuckets ==
    last.op = "policy" =>
        LET p == last.stats.percentage
        IN  /\ \A b \in Buckets :
                  InBucket(p, b) =>
                      last.stats.grade = b.grade /\ last.stats.gpa = b.gpa * FScale
            /\ (\A b \in Buckets : ~InBucket(p, b)) =>
                  last.stats.grade = "F" /\ last.stats.gpa = 0
            /\ \A q \in Percentages :
                  q <= p => DefaultGradeStrategy_calculateGPA(q) <= last.stats.gpa

\* C12 happens: the policy was called with exactly 90 and gave A and 4.0.
C12_Witness ==
    /\ last.op = "policy"
    /\ last.stats.percentage = 90 * FScale
    /\ last.stats.grade = "A"
    /\ last.stats.gpa = 4 * FScale

\* tokens of a record before its attendance count
FixedTokens == 5 + NumMarks

RECURSIVE CompleteCount(_)
\* the number of records the store holds completely: identity fields and
\* marks, the attendance count n, n date/status pairs and the gpa
CompleteCount(toks) ==
    IF Len(toks) < FixedTokens + 1 THEN 0
    ELSE LET n == ParseInt(toks[FixedTokens + 1]).val
             size == FixedTokens + 1 + 2 * n + 1
         IN  IF Len(toks) < size THEN 0
             ELSE 1 + CompleteCount(Drop(toks, size))

\* C13: the roster the load of the native store returns has as many records
\* as the store holds completely before its first incomplete one: a record
\* cut short at any point adds no record, and every entry of a loaded
\* ledger has the date and the status read for it.
C13_LoadCompleteOnly ==
    (last.op = "load" /\ last.status = "ok") =>
        /\ Len(students) = CompleteCount(store)
        /\ \A i \in 1..Len(students) :
              \A k \in 1..Len(Ledger(students, i)) :
                  /\ Ledger(students, i)[k].date # <<>>
                  /\ Ledger(students, i)[k].status # <<>>

\* a date of the month: MM and YYYY of the YYYY-MM-DD layout equal monthYear
InMonth(date, monthYear) ==
    /\ Len(date) >= 7
    /\ SubSeq(date, 6, 7) \o <<"-">> \o SubSeq(date, 1, 4) = monthYear

MonthEntries(s, monthYear) ==
    SelectSeq(s.attendanceRecords, LAMBDA att : InMonth(att.date, monthYear))

\* C14: the monthly aggregation completes without an error on every roster,
\* whatever dates markAttendance recorded, and reports, in roster order, one
\* row for each student with an entry of the month, giving the numbers of
\* its Present and of its other entries of the month; students without such
\* an entry are skipped.
C14_MonthlyTotal ==
    last.op = "monthly" =>
        /\ last.status = "ok"
        /\ LET listed == SelectSeq(students,
                              LAMBDA s : MonthEntries(s, last.cls) # <<>>)
           IN  /\ Len(last.stats) = Len(listed)
               /\ \A i \in 1..Len(listed) :
                     LET entries == MonthEntries(listed[i], last.cls)
                         present == Len(SelectSeq(entries,
                                         LAMBDA att : att.status = Present))
                     IN  /\ last.stats[i].rollNo = listed[i].rollNo
                         /\ last.stats[i].present = present
                         /\ last.stats[i].absent = Len(entries) - present

====
